---- MODULE Spec2Model ----
(***************************************************************************)
(* Model of NyanzaWeatherForecaster (src/Weather.py): analyze_forecast     *)
(* folds 3-hourly forecast items into per-day records, derives one insight *)
(* per day against a crop profile, and format_insights_for_farmers renders *)
(* the insights.                                                           *)
(*                                                                         *)
(* Conventions.                                                            *)
(*  - A Python dict is a sequence of entries in insertion order.           *)
(*  - An optional key of a forecast item is a record [has, v]; reading an  *)
(*    absent key with item[...] raises KeyError.                           *)
(*  - Temperatures, humidity and rain amounts of the inputs are whole      *)
(*    numbers; values that went through round(x, 1) are kept in tenths,    *)
(*    rounded as Python rounds the double of the quotient.                 *)
(*  - A calendar date is the number of whole days since the epoch (the     *)
(*    '%Y-%m-%d' string of a date orders the same way), local time = UTC.  *)
(*  - The texts of the recommendations are kept without their emoji.       *)
(***************************************************************************)
EXTENDS Integers, Sequences, FiniteSets, TLC

VARIABLES
    crop_data,      \* self.crop_data
    forecast_data,  \* argument of analyze_forecast: [is_none, list]
    crop_type,      \* argument of analyze_forecast / format_insights_for_farmers
    daily_data,     \* local dict of analyze_forecast, insertion ordered
    ret,            \* outcome of analyze_forecast: [kind, value, exc]
    message,        \* value returned by format_insights_for_farmers
    set_iter,       \* iteration orders of sets this process has shown so far
    memo,           \* outcome of the first call made on this forecaster
    pc

vars == <<crop_data, forecast_data, crop_type, daily_data, ret, message, set_iter, memo, pc>>

----------------------------------------------------------------------------
(* Bounds of the inputs *)

MaxLen == 2
MaxLenIdem == 1
MaxSlot == 8

(* Program constants *)

ForecastStep == 10800
SecondsPerDay == 86400
NegInf == -100000
PosInf == 100000
RainLow == 5
RainHigh == 20

HEAT == "High temperature warning! Consider shading crops."
COLD == "Low temperatures may slow growth."
IRRIGATE == "Little rain expected. Consider irrigation."
DRAIN == "Heavy rain expected. Ensure proper drainage."
STORM == "Thunderstorm expected. Secure equipment and harvest if possible."
NO_DATA == "No weather data available. Please try again later."
FAVORABLE == "Conditions look favorable for your crops!"
REC_HEADER == "Recommendations:"

----------------------------------------------------------------------------
(* self.crop_data as built by __init__ *)

CropTable ==
    <<[name |-> "maize", optimal_temp |-> <<20, 30>>, water_needs |-> 500,  risk_temp |-> 35],
      [name |-> "tea",   optimal_temp |-> <<15, 25>>, water_needs |-> 1200, risk_temp |-> 30],
      [name |-> "beans", optimal_temp |-> <<18, 27>>, water_needs |-> 400,  risk_temp |-> 32]>>

CropKeys(table) == {table[k].name : k \in 1..Len(table)}

CropLookup(table, name) ==
    table[CHOOSE k \in 1..Len(table) : table[k].name = name]

\* Variant: the fallback profile is tea instead of maize
CropInfoDefaultTea(table, name) ==
    IF name \in CropKeys(table) THEN CropLookup(table, name) ELSE CropLookup(table, "tea")

\* self.crop_data.get(crop_type, self.crop_data['maize'])
CropInfo(table, name) ==
    IF name \in CropKeys(table) THEN CropLookup(table, name) ELSE CropLookup(table, "maize")

\* str.capitalize() on the crop names used
Capitalize(name) ==
    CASE name = "maize"   -> "Maize"
      [] name = "tea"     -> "Tea"
      [] name = "beans"   -> "Beans"
      [] name = "cassava" -> "Cassava"
      [] OTHER            -> name

----------------------------------------------------------------------------
(* Forecast items *)

Present(x) == [has |-> TRUE, v |-> x]
Absent == [has |-> FALSE, v |-> 0]
AbsentList == [has |-> FALSE, v |-> <<>>]

\* item['rain'] absent / item['rain'] = {} / item['rain'] = {'3h': mm}
NoRain == [block |-> FALSE, has3h |-> FALSE, v |-> 0]
RainNo3h == [block |-> TRUE, has3h |-> FALSE, v |-> 0]
Rain3h(mm) == [block |-> TRUE, has3h |-> TRUE, v |-> mm]

MkItem(dt, temp, humidity, rain, weather) ==
    [dt |-> dt, temp |-> temp, humidity |-> humidity, rain |-> rain, weather |-> weather]

\* Variant: items are grouped by their timestamp instead of its date
DateOfTimestamp(dt) == dt

\* datetime.fromtimestamp(item['dt']).strftime('%Y-%m-%d')
DateOf(dt) == dt \div SecondsPerDay

\* item['rain'].get('3h', 0)
RainAmount(rain) == IF rain.has3h THEN rain.v ELSE 0

Max(a, b) == IF a >= b THEN a ELSE b
Min(a, b) == IF a <= b THEN a ELSE b

----------------------------------------------------------------------------
(* Aggregation: lines 39-72 *)

\* Variant: the dict of the previous call is kept
NewDailyDataStale(old) == old

\* daily_data = {}
NewDailyData(old) == <<>>

NewEntry(date) ==
    [date |-> date, temp_sum |-> 0, temp_count |-> 0, rain_sum |-> 0, humidity_sum |-> 0,
     max_temp |-> NegInf, min_temp |-> PosInf, weather_conditions |-> <<>>]

HasDate(dd, date) == \E k \in 1..Len(dd) : dd[k].date = date

IndexOfDate(dd, date) == CHOOSE k \in 1..Len(dd) : dd[k].date = date

Range(s) == {s[k] : k \in 1..Len(s)}

\* set.update(labels): a set is kept as the sequence of its members in the order
\* they were first added, which fixes its hash-table layout
RECURSIVE SetUpdate(_, _)
SetUpdate(members, labels) ==
    IF labels = <<>> THEN members
    ELSE SetUpdate(IF Head(labels) \in Range(members) THEN members
                   ELSE Append(members, Head(labels)),
                   Tail(labels))

\* Variant: the temperature is read with a default of 0 instead of a subscript
KeyErrorOfTempDefaulted(item) ==
    IF ~item.dt.has THEN "KeyError: 'dt'"
    ELSE IF ~item.humidity.has THEN "KeyError: 'humidity'"
    ELSE IF ~item.weather.has THEN "KeyError: 'weather'"
    ELSE ""

\* The first key of the item that a subscript of the loop body fails on, in
\* source order (lines 43, 56, 67, 71); "" when every subscript succeeds.
\* 'rain' is read behind a membership test and '3h' with .get, so neither raises.
KeyErrorOf(item) ==
    IF ~item.dt.has THEN "KeyError: 'dt'"
    ELSE IF ~item.temp.has THEN "KeyError: 'temp'"
    ELSE IF ~item.humidity.has THEN "KeyError: 'humidity'"
    ELSE IF ~item.weather.has THEN "KeyError: 'weather'"
    ELSE ""

\* One iteration of the loop at line 42. Returns the dict and the exception raised
\* ("" when none); statements run in source order, so an exception leaves the
\* updates made before it.
FoldItem(dd, item) ==
    LET exc == KeyErrorOf(item)
    IN  IF exc = "KeyError: 'dt'" THEN [daily_data |-> dd, exc |-> exc]
        ELSE
        LET date == DateOf(item.dt.v)
            dd1 == IF HasDate(dd, date) THEN dd ELSE Append(dd, NewEntry(date))
            k == IndexOfDate(dd1, date)
            temp == item.temp.v
            e2 == [dd1[k] EXCEPT !.temp_sum = @ + temp,
                                 !.temp_count = @ + 1,
                                 !.max_temp = Max(@, temp),
                                 !.min_temp = Min(@, temp)]
            e3 == IF item.rain.block
                  THEN [e2 EXCEPT !.rain_sum = @ + RainAmount(item.rain)]
                  ELSE e2
            e4 == [e3 EXCEPT !.humidity_sum = @ + item.humidity.v]
            e5 == [e4 EXCEPT !.weather_conditions = SetUpdate(@, item.weather.v)]
        IN  [daily_data |->
                CASE exc = "KeyError: 'temp'"     -> dd1
                  [] exc = "KeyError: 'humidity'" -> [dd1 EXCEPT ![k] = e3]
                  [] exc = "KeyError: 'weather'"  -> [dd1 EXCEPT ![k] = e4]
                  [] OTHER                        -> [dd1 EXCEPT ![k] = e5],
             exc |-> exc]

\* for item in forecast_data['list']: ... ; stops at the first exception
RECURSIVE FoldFrom(_, _, _)
FoldFrom(dd, list, i) ==
    IF i > Len(list) THEN [daily_data |-> dd, exc |-> ""]
    ELSE LET r == FoldItem(dd, list[i])
         IN  IF r.exc # "" THEN r ELSE FoldFrom(r.daily_data, list, i + 1)

\* Variant: the guard also rejects a payload whose list is empty
FalsyWhenListEmpty(fd) == fd.is_none \/ fd.list = <<>>

\* if not forecast_data: true of None and of {}, false of a dict holding 'list'
NotForecastData(fd) == fd.is_none

----------------------------------------------------------------------------
(* Insights: lines 74-111 *)

\* floor(log2(a / b)) for positive a and b: the binary exponent of the double a / b
RECURSIVE BinaryExponent(_, _)
BinaryExponent(a, b) ==
    IF a >= b THEN (IF a >= 2 * b THEN 1 + BinaryExponent(a, 2 * b) ELSE 0)
    ELSE BinaryExponent(2 * a, b) - 1

\* 2^m mod 5
Pow2Mod5(m) == CASE m % 4 = 0 -> 1 [] m % 4 = 1 -> 2 [] m % 4 = 2 -> 4 [] OTHER -> 3

\* For odd a not divisible by 5, a / 20 is no double: whether the nearest double
\* (53 significant bits, so 52 - e bits after the binary point, e the binary
\* exponent) lies above it. The part of a / 20 cut off there is
\* ((2^(50 - e) * a) mod 5) / 5 of the last bit; it rounds up when that is over 1/2.
DoubleAbove(a) == (Pow2Mod5(50 - BinaryExponent(a, 20)) * (a % 5)) % 5 >= 3

\* round(num / den, 1), in tenths. num / den is the double nearest the quotient and
\* round() rounds that double's exact value, half to even. A quotient that is no
\* tie rounds as the exact quotient does; a tie k / 20 that is a double (k a
\* multiple of 5, so a multiple of 1/4) goes to the even tenth; any other tie goes
\* to the side of k / 20 its double lies on.
Round1(num, den) ==
    LET q == (10 * num) \div den
        r == (10 * num) % den
        k == 2 * q + 1
        a == IF k >= 0 THEN k ELSE -k
    IN  IF 2 * r < den THEN q
        ELSE IF 2 * r > den THEN q + 1
        ELSE IF a % 5 = 0 THEN (IF q % 2 = 0 THEN q ELSE q + 1)
        ELSE LET mag == IF DoubleAbove(a) THEN (a + 1) \div 2 ELSE (a - 1) \div 2
             IN  IF k >= 0 THEN mag ELSE -mag

\* Variant: the cold test is an if of its own instead of the elif
TempAdviceIndependent(data, crop_info) ==
    (IF data.max_temp > crop_info.risk_temp THEN <<HEAT>> ELSE <<>>)
    \o (IF data.temp_sum < crop_info.optimal_temp[1] * data.temp_count THEN <<COLD>> ELSE <<>>)

\* Temperature checks, lines 85-88 (avg_temp = temp_sum / temp_count)
TempAdvice(data, crop_info) ==
    IF data.max_temp > crop_info.risk_temp THEN <<HEAT>>
    ELSE IF data.temp_sum < crop_info.optimal_temp[1] * data.temp_count THEN <<COLD>>
    ELSE <<>>

\* Variant: the rain thresholds compared with <= and >=
RainAdviceInclusive(total_rain) ==
    IF total_rain <= RainLow THEN <<IRRIGATE>>
    ELSE IF total_rain >= RainHigh THEN <<DRAIN>>
    ELSE <<>>

\* Rainfall analysis, lines 91-94
RainAdvice(total_rain) ==
    IF total_rain < RainLow THEN <<IRRIGATE>>
    ELSE IF total_rain > RainHigh THEN <<DRAIN>>
    ELSE <<>>

\* Variant: any condition label triggers the thunderstorm advisory
StormAdviceAnyCondition(conditions) ==
    IF conditions # <<>> THEN <<STORM>> ELSE <<>>

\* Special conditions, lines 97-98
StormAdvice(conditions) ==
    IF "Thunderstorm" \in Range(conditions) THEN <<STORM>> ELSE <<>>

\* Variant: the thunderstorm advisory is appended first
RecommendationsStormFirst(data, crop_info) ==
    StormAdvice(data.weather_conditions) \o TempAdvice(data, crop_info)
    \o RainAdvice(data.rain_sum)

\* recommendations, in the order the code appends them
Recommendations(data, crop_info) ==
    TempAdvice(data, crop_info) \o RainAdvice(data.rain_sum)
    \o StormAdvice(data.weather_conditions)

\* The layouts a set of labels can have, and the orders iteration can give them
Labels == {"Clear", "Thunderstorm"}
Layouts == {<<>>} \cup {<<a>> : a \in Labels}
           \cup {p \in Labels \X Labels : p[1] # p[2]}
TwoLayouts == {s \in Layouts : Len(s) = 2}
SetIterChoices ==
    {[s \in Layouts |-> IF Len(s) = 2 /\ flip[s] THEN <<s[2], s[1]>> ELSE s] :
        flip \in [TwoLayouts -> BOOLEAN]}

\* One insight, lines 100-109; iter gives the order ', '.join walks the set in
Insight(data, crop_info, iter) ==
    [date |-> data.date,
     avg_temp |-> Round1(data.temp_sum, data.temp_count),
     max_temp |-> Round1(data.max_temp, 1),
     min_temp |-> Round1(data.min_temp, 1),
     total_rain |-> Round1(data.rain_sum, 1),
     avg_humidity |-> Round1(data.humidity_sum, data.temp_count),
     conditions |-> iter[data.weather_conditions],
     recommendations |-> Recommendations(data, crop_info)]

\* for date, data in daily_data.items(): insights.append(...)
Insights(dd, crop_info, iter) ==
    [k \in 1..Len(dd) |-> Insight(dd[k], crop_info, iter)]

----------------------------------------------------------------------------
(* Rendering: lines 113-136 *)

DayBlock(day) ==
    [kind |-> "day", date |-> day.date,
     min_temp |-> day.min_temp, max_temp |-> day.max_temp, avg_temp |-> day.avg_temp,
     total_rain |-> day.total_rain, avg_humidity |-> day.avg_humidity,
     conditions |-> day.conditions,
     lines |-> IF day.recommendations # <<>>
               THEN <<REC_HEADER>> \o day.recommendations
               ELSE <<FAVORABLE>>]

Header(crop) ==
    [kind |-> "header", crop |-> Capitalize(crop)]

NoDataMessage == <<[kind |-> "text", text |-> NO_DATA]>>

\* format_insights_for_farmers(insights, crop_type); insights is None or a list
FormatInsights(r, crop) ==
    IF r.kind = "none" \/ r.value = <<>> THEN NoDataMessage
    ELSE <<Header(crop)>> \o [k \in 1..Len(r.value) |-> DayBlock(r.value[k])]

----------------------------------------------------------------------------
(* State machine *)

Unset == [kind |-> "unset", value |-> <<>>, exc |-> ""]

NoMemo ==
    [set |-> FALSE, forecast_data |-> [is_none |-> TRUE, list |-> <<>>],
     crop_type |-> "", ret |-> Unset, message |-> <<>>]

\* Lines 35-36: if not forecast_data: return None
ReturnNone ==
    /\ pc = "start"
    /\ NotForecastData(forecast_data)
    /\ ret' = [kind |-> "none", value |-> <<>>, exc |-> ""]
    /\ pc' = "returned"
    /\ UNCHANGED <<crop_data, forecast_data, crop_type, daily_data, message, set_iter, memo>>

\* Lines 38-72, the loop running to its end
Aggregate ==
    /\ pc = "start"
    /\ ~NotForecastData(forecast_data)
    /\ LET r == FoldFrom(NewDailyData(daily_data), forecast_data.list, 1)
       IN  /\ r.exc = ""
           /\ daily_data' = r.daily_data
    /\ pc' = "aggregated"
    /\ UNCHANGED <<crop_data, forecast_data, crop_type, ret, message, set_iter, memo>>

\* Lines 38-72, an item lacking a key: the KeyError leaves analyze_forecast
AggregateRaise ==
    /\ pc = "start"
    /\ ~NotForecastData(forecast_data)
    /\ LET r == FoldFrom(NewDailyData(daily_data), forecast_data.list, 1)
       IN  /\ r.exc # ""
           /\ daily_data' = r.daily_data
           /\ ret' = [kind |-> "raise", value |-> <<>>, exc |-> r.exc]
    /\ pc' = "raised"
    /\ UNCHANGED <<crop_data, forecast_data, crop_type, message, set_iter, memo>>

Graph(f, layouts) == {<<s, f[s]>> : s \in layouts}

\* Lines 74-111. The order a set iterates in is fixed for the process by its
\* hash seed; it is settled the first time a layout of two labels is joined.
GenerateInsights ==
    /\ pc = "aggregated"
    /\ \E iter \in SetIterChoices :
          LET seen == {daily_data[k].weather_conditions : k \in 1..Len(daily_data)}
              open == {s \in seen : Len(s) > 1}
          IN  /\ set_iter \subseteq Graph(iter, Layouts)
              /\ set_iter' = set_iter \cup Graph(iter, open)
              /\ ret' = [kind |-> "list",
                         value |-> Insights(daily_data, CropInfo(crop_data, crop_type), iter),
                         exc |-> ""]
    /\ pc' = "returned"
    /\ UNCHANGED <<crop_data, forecast_data, crop_type, daily_data, message, memo>>

\* Lines 113-136, called with what analyze_forecast returned
Format ==
    /\ pc = "returned"
    /\ message' = FormatInsights(ret, crop_type)
    /\ pc' = "formatted"
    /\ UNCHANGED <<crop_data, forecast_data, crop_type, daily_data, ret, set_iter, memo>>

----------------------------------------------------------------------------
(* Inputs *)

Slots == 7..MaxSlot
DtOpts == {Present(ForecastStep * k) : k \in Slots}

RECURSIVE SeqsUpTo(_, _)
SeqsUpTo(S, n) ==
    IF n = 0 THEN {<<>>}
    ELSE LET shorter == SeqsUpTo(S, n - 1)
         IN  shorter \cup {Append(s, x) : s \in {t \in shorter : Len(t) = n - 1}, x \in S}

Payloads(S, n) ==
    {[is_none |-> TRUE, list |-> <<>>]} \cup {[is_none |-> FALSE, list |-> l] : l \in SeqsUpTo(S, n)}

Broken ==
    {MkItem(Absent, Present(35), Present(50), NoRain, Present(<<"Clear">>)),
     MkItem(Present(ForecastStep * 8), Absent, Present(50), NoRain, Present(<<"Clear">>)),
     MkItem(Present(ForecastStep * 8), Present(35), Absent, Rain3h(5), Present(<<"Clear">>)),
     MkItem(Present(ForecastStep * 8), Present(35), Present(50), Rain3h(5), AbsentList)}

\* Items varying the date, the temperature and the shape of the rain block
ItemsAgg ==
    {MkItem(dt, Present(t), Present(50), r, Present(<<"Clear">>)) :
        dt \in DtOpts, t \in {10, 35}, r \in {NoRain, RainNo3h, Rain3h(5)}}
    \cup Broken

\* Items of one day varying what the advisory rules read
ItemsAdv ==
    {MkItem(Present(ForecastStep * 8), Present(t), Present(50), r, Present(w)) :
        t \in {2, 20, 35, 36}, r \in {NoRain, Rain3h(5), Rain3h(20)},
        w \in {<<>>, <<"Thunderstorm">>, <<"Clear">>}}
    \cup {MkItem(Present(ForecastStep * 8), Absent, Present(50), NoRain, Present(<<>>))}

\* A few items for sequences of calls
ItemsIdem ==
    {MkItem(Present(ForecastStep * 8), Present(36), Present(50), Rain3h(5),
            Present(<<"Thunderstorm", "Clear">>)),
     MkItem(Present(ForecastStep * 7), Present(10), Present(50), NoRain, Present(<<"Clear">>)),
     MkItem(Present(ForecastStep * 8), Present(10), Present(65), Rain3h(5),
            Present(<<"Clear", "Thunderstorm">>)),
     MkItem(Absent, Present(36), Present(50), NoRain, Present(<<"Clear">>))}

PayloadsIdem == Payloads(ItemsIdem, MaxLenIdem)

InitWith(payloads, crops) ==
    /\ crop_data = CropTable
    /\ forecast_data \in payloads
    /\ crop_type \in crops
    /\ daily_data = <<>>
    /\ ret = Unset
    /\ message = <<>>
    /\ set_iter = {}
    /\ memo = NoMemo
    /\ pc = "start"

Init == InitWith(Payloads(ItemsAgg, MaxLen), {"maize", "tea"})

Next == ReturnNone \/ Aggregate \/ AggregateRaise \/ GenerateInsights \/ Format

Spec == Init /\ [][Next]_vars

\* A further call of analyze_forecast on the same forecaster, after the
\* previous one returned and was rendered, or raised
CallAgain ==
    /\ pc \in {"formatted", "raised"}
    /\ \E fd \in PayloadsIdem, c \in {"maize", "tea"} :
          /\ forecast_data' = fd
          /\ crop_type' = c
    /\ memo' = IF memo.set THEN memo
               ELSE [set |-> TRUE, forecast_data |-> forecast_data, crop_type |-> crop_type,
                     ret |-> ret, message |-> message]
    /\ ret' = Unset
    /\ message' = <<>>
    /\ pc' = "start"
    /\ UNCHANGED <<crop_data, daily_data, set_iter>>

InitIdem == InitWith(PayloadsIdem, {"maize", "tea"})

NextIdem == Next \/ CallAgain

SpecIdem == InitIdem /\ [][NextIdem]_vars

InitAdvisor == InitWith(Payloads(ItemsAdv, MaxLen), {"maize", "tea", "beans", "cassava"})

SpecAdvisor == InitAdvisor /\ [][Next]_vars

----------------------------------------------------------------------------
(* What the claims speak of, stated over the input rather than over the fold *)

Obs == forecast_data.list

\* analyze_forecast got past the loop, so daily_data is the finished dict
Aggregated == pc = "aggregated" \/ (pc \in {"returned", "formatted"} /\ ret.kind = "list")

\* analyze_forecast returned a list of insights
Returned == pc \in {"returned", "formatted"} /\ ret.kind = "list"

CalendarDay(item) == item.dt.v \div SecondsPerDay

ObsOn(date) == {i \in 1..Len(Obs) : CalendarDay(Obs[i]) = date}

RECURSIVE SumOver(_, _)
SumOver(f, S) ==
    IF S = {} THEN 0
    ELSE LET x == CHOOSE x \in S : TRUE IN f[x] + SumOver(f, S \ {x})

TempTotal(date) == SumOver([i \in 1..Len(Obs) |-> Obs[i].temp.v], ObsOn(date))
MaxTempOn(date) == CHOOSE t \in {Obs[i].temp.v : i \in ObsOn(date)} :
                       \A i \in ObsOn(date) : Obs[i].temp.v <= t
MinTempOn(date) == CHOOSE t \in {Obs[i].temp.v : i \in ObsOn(date)} :
                       \A i \in ObsOn(date) : Obs[i].temp.v >= t
RainTotal(date) ==
    SumOver([i \in 1..Len(Obs) |->
                IF Obs[i].rain.block /\ Obs[i].rain.has3h THEN Obs[i].rain.v ELSE 0],
            ObsOn(date))
LabelsOn(date) == UNION {Range(Obs[i].weather.v) : i \in ObsOn(date)}

\* Thresholds of the crop profiles, as the crop table documents them
RiskTemp(crop) ==
    CASE crop = "tea" -> 30 [] crop = "beans" -> 32 [] OTHER -> 35
OptimalLow(crop) ==
    CASE crop = "tea" -> 15 [] crop = "beans" -> 18 [] OTHER -> 20

TooHot(date, crop) == MaxTempOn(date) > RiskTemp(crop)
TooCold(date, crop) == TempTotal(date) < OptimalLow(crop) * Cardinality(ObsOn(date))

Recs(k) == ret.value[k].recommendations
Days == 1..Len(ret.value)

----------------------------------------------------------------------------
(* C1. Whenever a day's maximum temperature exceeds the risk threshold of the  *)
(* crop profile in use, that day's advisories hold no cold-stress warning,     *)
(* whatever its average is; no day carries both temperature advisories.        *)
C1_MutualExclusion ==
    Returned =>
        \A k \in Days :
            /\ TooHot(ret.value[k].date, crop_type) => COLD \notin Range(Recs(k))
            /\ ~(HEAT \in Range(Recs(k)) /\ COLD \in Range(Recs(k)))

\* a day both too hot at its maximum and too cold on average
C1_Witness ==
    /\ Returned
    /\ \E k \in Days :
          /\ TooHot(ret.value[k].date, crop_type)
          /\ TooCold(ret.value[k].date, crop_type)
          /\ HEAT \in Range(Recs(k))

(* C2. The irrigation advisory appears exactly when the day's precipitation    *)
(* total is below 5 and the drainage advisory exactly when it is above 20, so  *)
(* totals of exactly 5 and exactly 20 get neither, and no day gets both.       *)
C2_StrictRainBounds ==
    Returned =>
        \A k \in Days :
            LET total == RainTotal(ret.value[k].date)
            IN  /\ IRRIGATE \in Range(Recs(k)) <=> total < 5
                /\ DRAIN \in Range(Recs(k)) <=> total > 20
                /\ ~(IRRIGATE \in Range(Recs(k)) /\ DRAIN \in Range(Recs(k)))

\* a day whose total is exactly 20, made of more than one observation
C2_Witness ==
    /\ Returned
    /\ \E k \in Days :
          /\ RainTotal(ret.value[k].date) = 20
          /\ Cardinality(ObsOn(ret.value[k].date)) > 1
          /\ DRAIN \notin Range(Recs(k))
          /\ IRRIGATE \notin Range(Recs(k))

(* C3. Grouping is total and non-overlapping: one day record and one insight   *)
(* per distinct calendar date of the input, the per-day counts add up to the   *)
(* number of observations, every day's sum, count, minimum, maximum and rain   *)
(* total come from exactly the observations of that date, and the reported     *)
(* average is their arithmetic mean (to the one decimal the insight keeps).    *)
C3_Grouping ==
    Aggregated =>
        LET dates == {CalendarDay(Obs[i]) : i \in 1..Len(Obs)}
            n == Len(daily_data)
        IN  /\ n = Cardinality(dates)
            /\ {daily_data[k].date : k \in 1..n} = dates
            /\ SumOver([k \in 1..n |-> daily_data[k].temp_count], 1..n) = Len(Obs)
            /\ \A k \in 1..n :
                  LET d == daily_data[k].date
                  IN  /\ daily_data[k].temp_count = Cardinality(ObsOn(d))
                      /\ daily_data[k].temp_sum = TempTotal(d)
                      /\ daily_data[k].max_temp = MaxTempOn(d)
                      /\ daily_data[k].min_temp = MinTempOn(d)
                      /\ daily_data[k].rain_sum = RainTotal(d)
            /\ Returned =>
                  /\ Len(ret.value) = Cardinality(dates)
                  /\ {ret.value[k].date : k \in Days} = dates
                  /\ \A k \in Days :
                        LET d == ret.value[k].date
                            c == Cardinality(ObsOn(d))
                            err == 10 * TempTotal(d) - ret.value[k].avg_temp * c
                        IN  /\ 2 * err <= c /\ 2 * err >= -c
                            /\ ret.value[k].max_temp = 10 * MaxTempOn(d)
                            /\ ret.value[k].min_temp = 10 * MinTempOn(d)
                            /\ ret.value[k].total_rain = 10 * RainTotal(d)

\* observations of two dates, the later date first
C3_Witness ==
    /\ Returned
    /\ Len(ret.value) = 2
    /\ Len(Obs) = MaxLen
    /\ CalendarDay(Obs[1]) > CalendarDay(Obs[Len(Obs)])

(* C4. The insights list the calendar dates in strictly increasing order,      *)
(* whether or not the observations came ordered by timestamp.                  *)
C4_Chronological ==
    Returned =>
        \A j \in Days : \A k \in Days : j < k => ret.value[j].date < ret.value[k].date

(* C5. An observation without its temperature or its timestamp makes           *)
(* analyze_forecast fail with an error and return no insight list; an          *)
(* observation without a precipitation block, or with one that has no 3h       *)
(* amount, adds zero to its day's total and the call goes on normally.         *)
C5_MissingFields ==
    (pc # "start" /\ ~forecast_data.is_none) =>
        /\ (\E i \in 1..Len(Obs) : ~Obs[i].temp.has \/ ~Obs[i].dt.has) =>
              /\ pc = "raised"
              /\ ret.kind = "raise"
              /\ ret.value = <<>>
              /\ message = <<>>
        /\ (\A i \in 1..Len(Obs) :
                Obs[i].dt.has /\ Obs[i].temp.has /\ Obs[i].humidity.has /\ Obs[i].weather.has) =>
              /\ pc # "raised"
              /\ ret.kind # "raise"
              /\ Aggregated =>
                    \A k \in 1..Len(daily_data) :
                        daily_data[k].rain_sum = RainTotal(daily_data[k].date)

\* a list whose first observation has no rain block and whose last has no temperature
C5_Witness ==
    /\ pc = "raised"
    /\ Len(Obs) = 2
    /\ ~Obs[1].rain.block /\ Obs[1].temp.has /\ Obs[1].dt.has
    /\ ~Obs[2].temp.has

(* C6. A payload whose observation list is empty is no error: analyze_forecast *)
(* returns an empty list, and format_insights_for_farmers renders it as the    *)
(* no-data message alone, without header or day block.                         *)
C6_EmptyInput ==
    (~forecast_data.is_none /\ Obs = <<>>) =>
        /\ pc # "raised"
        /\ pc \in {"returned", "formatted"} => ret = [kind |-> "list", value |-> <<>>, exc |-> ""]
        /\ pc = "formatted" => message = <<[kind |-> "text", text |-> NO_DATA]>>

C6_Witness ==
    /\ ~forecast_data.is_none /\ Obs = <<>>
    /\ pc = "formatted"

(* C7. A crop name that is no key of the crop table raises nothing and gives   *)
(* the insights of maize (risk 35, optimal low 20); a known crop name gives    *)
(* the insights of its own thresholds.                                         *)
C7_CropFallback ==
    /\ crop_type \notin {"maize", "tea", "beans"} =>
          ret.kind # "raise" \/ (\E i \in 1..Len(Obs) : KeyErrorOf(Obs[i]) # "")
    /\ Returned =>
          \A k \in Days :
              LET d == ret.value[k].date
              IN  /\ HEAT \in Range(Recs(k)) <=> TooHot(d, crop_type)
                  /\ COLD \in Range(Recs(k)) <=> (~TooHot(d, crop_type) /\ TooCold(d, crop_type))
                  /\ crop_type \notin {"maize", "tea", "beans"} =>
                        Recs(k) = Recommendations(daily_data[k], CropLookup(CropTable, "maize"))

\* an unknown crop and a day that tea's thresholds would call too hot
C7_Witness ==
    /\ Returned
    /\ crop_type = "cassava"
    /\ \E k \in Days :
          /\ MaxTempOn(ret.value[k].date) = 35
          /\ HEAT \notin Range(Recs(k))
          /\ COLD \notin Range(Recs(k))

(* C8. A day's advisory list is empty exactly when its maximum is at most the  *)
(* risk threshold, its average at least the optimal low bound, its rain total  *)
(* within 5..20 and no Thunderstorm label was seen; the rendered block shows   *)
(* the favorable notice exactly for such days, never beside an advisory.       *)
C8_Favorable ==
    Returned =>
        \A k \in Days :
            LET d == ret.value[k].date
                safe == /\ ~TooHot(d, crop_type)
                        /\ ~TooCold(d, crop_type)
                        /\ RainTotal(d) >= 5 /\ RainTotal(d) <= 20
                        /\ "Thunderstorm" \notin LabelsOn(d)
            IN  /\ Recs(k) = <<>> <=> safe
                /\ pc = "formatted" =>
                      LET lines == Range(message[k + 1].lines)
                      IN  /\ message[k + 1].date = d
                          /\ FAVORABLE \in lines <=> safe
                          /\ FAVORABLE \in lines =>
                                lines \cap {HEAT, COLD, IRRIGATE, DRAIN, STORM, REC_HEADER} = {}
                          /\ FAVORABLE \notin lines => Range(Recs(k)) \subseteq lines

\* a rendered favorable day at both temperature boundaries with a harmless label
C8_Witness ==
    /\ pc = "formatted" /\ Returned
    /\ \E k \in Days :
          /\ Recs(k) = <<>>
          /\ "Clear" \in LabelsOn(ret.value[k].date)
          /\ MaxTempOn(ret.value[k].date) = RiskTemp(crop_type)
          /\ RainTotal(ret.value[k].date) = 5

(* C9. A day's advisories are at most one temperature advisory, then at most   *)
(* one precipitation advisory, then at most one thunderstorm advisory; the     *)
(* thunderstorm advisory is there exactly when a Thunderstorm label was seen   *)
(* that day; one maize observation of 36 degrees without rain or conditions    *)
(* gives exactly the heat warning followed by the irrigation advisory.         *)
C9_RuleOrder ==
    Returned =>
        /\ \A k \in Days :
              /\ \E t \in {<<>>, <<HEAT>>, <<COLD>>} :
                 \E r \in {<<>>, <<IRRIGATE>>, <<DRAIN>>} :
                 \E w \in {<<>>, <<STORM>>} : Recs(k) = t \o r \o w
              /\ Len(Recs(k)) <= 3
              /\ STORM \in Range(Recs(k)) <=> "Thunderstorm" \in LabelsOn(ret.value[k].date)
        /\ (/\ crop_type = "maize"
            /\ Len(Obs) = 1
            /\ Obs[1].temp.v = 36 /\ RainTotal(CalendarDay(Obs[1])) = 0
            /\ Obs[1].weather.v = <<>>)
           => (Len(ret.value) = 1 /\ Recs(1) = <<HEAT, IRRIGATE>>)

\* all three rules firing on one day
C9_Witness ==
    /\ Returned
    /\ \E k \in Days : Recs(k) = <<HEAT, DRAIN, STORM>>

(* C10. No hidden state: a call never changes the crop table nor its own       *)
(* arguments, and a call with the arguments of the first call made on the      *)
(* forecaster ends as that first call did (same return value or exception,     *)
(* same rendering), whatever calls were made in between.                       *)
C10_NoHiddenState ==
    [][/\ crop_data' = crop_data
       /\ pc' # "start" => (forecast_data' = forecast_data /\ crop_type' = crop_type)
       /\ (/\ memo'.set
           /\ forecast_data' = memo'.forecast_data
           /\ crop_type' = memo'.crop_type) =>
             /\ pc' \in {"returned", "raised", "formatted"} => ret' = memo'.ret
             /\ pc' = "formatted" => message' = memo'.message]_vars

\* a later call with the first call's arguments, rendered, its day holding two labels
C10_Witness ==
    /\ memo.set
    /\ memo.ret.kind = "list"
    /\ Len(memo.ret.value) = 1
    /\ Len(memo.ret.value[1].conditions) = 2
    /\ forecast_data = memo.forecast_data
    /\ crop_type = memo.crop_type
    /\ pc = "formatted"
    /\ Len(daily_data) = 1
    /\ set_iter # {}

====
